---- MODULE Spec2Model ----
(***************************************************************************)
(* cargo-deb: the package build pipeline driven by                         *)
(* fuzz/fuzz_targets/fuzz_process_rand.rs (fn process), together with the  *)
(* collaborators it calls (compression backend, data and control tar       *)
(* builders, outer container assembler), which live in the cargo_deb       *)
(* library crate.                                                          *)
(***************************************************************************)
EXTENDS Integers, Sequences, FiniteSets, TLC

VARIABLES
    cli,              \* CliOptions fields that stay live across the pipeline
    options,          \* Config: metadata, resolved assets, default_timestamp
    pc,               \* position of process()
    ctl_pc,           \* position of the first closure of rayon::join
    data_pc,          \* position of the second closure of rayon::join
    ctl_result,       \* Result of the first closure
    data_result,      \* Result of the second closure
    control_builder,  \* ControlArchiveBuilder
    control_compressed,
    deb_contents,     \* DebArchive being written (temporary location)
    added,            \* names handed to add_data so far, in call order
    output_file,      \* what is at the final output path
    scratch,          \* the deb temp directory exists
    scratch_reset,    \* reset_deb_temp_directory has succeeded in this build
    printed,          \* lines written by println!
    info,             \* lines handed to listener.info
    installed,
    result,           \* what process has returned
    runs,             \* number of the current build
    prev_output,      \* output file of the previous build
    last_call,        \* protocol driver: last builder call and its outcome
    cb_calls,         \* ControlArchiveBuilder methods process has called, in order
    fuzz              \* fuzz_input: input, split index, position, loop counters

vars == <<cli, options, pc, ctl_pc, data_pc, ctl_result, data_result,
          control_builder, control_compressed, deb_contents, added,
          output_file, scratch, scratch_reset, printed, info, installed,
          result, runs, prev_output, last_call, cb_calls, fuzz>>

-----------------------------------------------------------------------------
(* Bounds *)

MaxAssets == 2
MaxContentLen == 1
MaxTimestamp == 1
MaxRuns == 2
MaxCalls == 4
MaxExtraLen == 1
MaxCharWidth == 2

-----------------------------------------------------------------------------
(* Data model *)

SeqsUpTo(S, n) == UNION {[1..k -> S] : k \in 0..n}

Chars == {"/", "a", "b"}

CharRank(c) == IF c = "/" THEN 0 ELSE IF c = "a" THEN 1 ELSE 2

\* Target paths as the manifest may give them: absolute or relative.
RawPaths == {<<"/", "a">>, <<"a">>, <<"b">>}

Contents == SeqsUpTo({1}, MaxContentLen)

Assets == [target : RawPaths, content : Contents]

AssetLists == SeqsUpTo(Assets, MaxAssets)

Metadatas == {"demo", "other"}

Timestamps == 0..MaxTimestamp

NoFile == <<>>

NoArchive == [open |-> FALSE, members |-> <<>>]

NoBlob == [ext |-> "", uncompressed_size |-> 0, len |-> 0, entries |-> <<>>]

NoBuilder == [state |-> "None", ext |-> "", mtime |-> 0, entries |-> <<>>]

Running == [status |-> "running", error |-> "", stage |-> ""]

Ok == [status |-> "Ok", error |-> "", stage |-> ""]

Err(e, s) == [status |-> "Err", error |-> e, stage |-> s]

Panic(s) == [status |-> "panic", error |-> "attempt to divide by zero", stage |-> s]

NoTaskResult == [status |-> "none", error |-> "", ext |-> "",
                 compressed |-> NoBlob, original_data_size |-> 0,
                 asset_hashes |-> <<>>]

NoCall == [op |-> "", error |-> "", n |-> 0]

NoFuzz == [pc |-> "off", input |-> <<>>, split_index |-> 0,
           input_manifest |-> <<>>, input_main_rs |-> <<>>,
           i |-> 0, strip_override_index |-> 0, caught |-> FALSE]

-----------------------------------------------------------------------------
(* Pure helpers of the collaborators *)

RECURSIVE SumLen(_)
SumLen(s) == IF s = <<>> THEN 0 ELSE Len(Head(s).content) + SumLen(Tail(s))

RECURSIVE SumBytes(_)
SumBytes(c) == IF c = <<>> THEN 0 ELSE Head(c) + SumBytes(Tail(c))

\* Content checksum: a function of the bytes only.
Digest(c) == (SumBytes(c) * 31 + Len(c) + 7) % 256

\* Normalisation of a target path: a leading "/" is dropped.
Normalize(p) == IF p # <<>> /\ Head(p) = "/" THEN Tail(p) ELSE p

RECURSIVE PathLeq(_, _)
PathLeq(p, q) ==
    IF p = <<>> THEN TRUE
    ELSE IF q = <<>> THEN FALSE
    ELSE IF CharRank(Head(p)) < CharRank(Head(q)) THEN TRUE
    ELSE IF CharRank(Head(p)) > CharRank(Head(q)) THEN FALSE
    ELSE PathLeq(Tail(p), Tail(q))

RECURSIVE InsertByTarget(_, _)
InsertByTarget(a, s) ==
    IF s = <<>> THEN <<a>>
    ELSE IF PathLeq(a.target, Head(s).target) THEN <<a>> \o s
    ELSE <<Head(s)>> \o InsertByTarget(a, Tail(s))

RECURSIVE SortByTarget(_)
SortByTarget(s) ==
    IF s = <<>> THEN <<>> ELSE InsertByTarget(Head(s), SortByTarget(Tail(s)))

NormalizedAssets(assets) ==
    [i \in 1..Len(assets) |->
        [target |-> Normalize(assets[i].target), content |-> assets[i].content]]

HasDuplicateTarget(assets) ==
    \E i, j \in 1..Len(assets) :
        i < j /\ Normalize(assets[i].target) = Normalize(assets[j].target)

\* compress::xz_or_gz(fast, system_xz): the format the policy selects, or
\* CompressionUnavailable when the external tool is required and missing.
xz_or_gz(fast, system_xz, xz_found) ==
    IF fast THEN [error |-> "", ext |-> "gz"]
    ELSE IF system_xz /\ ~xz_found
         THEN [error |-> "CompressionUnavailable", ext |-> ""]
         ELSE [error |-> "", ext |-> "xz"]

CompressedLen(ext, n) == IF ext = "gz" THEN n ELSE (n + 1) \div 2

Compress(ext, size, entries) ==
    [ext |-> ext, uncompressed_size |-> size,
     len |-> CompressedLen(ext, size), entries |-> entries]

-----------------------------------------------------------------------------
(* Data sub-archive builder: data::generate_archive *)

DataEntries(assets, ts) ==
    LET sorted == SortByTarget(NormalizedAssets(assets))
    IN  [i \in 1..Len(sorted) |->
            [path |-> sorted[i].target, mtime |-> ts, content |-> sorted[i].content]]

DataHashes(assets) ==
    LET sorted == SortByTarget(NormalizedAssets(assets))
    IN  [i \in 1..Len(sorted) |->
            [path |-> sorted[i].target, digest |-> Digest(sorted[i].content)]]

data_generate_archive(ext, assets, ts, readable) ==
    IF HasDuplicateTarget(assets)
    THEN [NoTaskResult EXCEPT !.status = "Err", !.error = "DuplicateTargetPath"]
    ELSE IF ~readable
    THEN [NoTaskResult EXCEPT !.status = "Err", !.error = "AssetUnreadable"]
    ELSE [status |-> "writing", error |-> "", ext |-> ext,
          compressed |-> Compress(ext, SumLen(assets), DataEntries(assets, ts)),
          original_data_size |-> SumLen(assets),
          asset_hashes |-> DataHashes(assets)]

-----------------------------------------------------------------------------
(* Control sub-archive builder: ControlArchiveBuilder *)

CB_new(ext, ts) ==
    [state |-> "Created", ext |-> ext, mtime |-> ts, entries |-> <<>>]

StaticEntries(metadata, ts) ==
    <<[path |-> "control", mtime |-> ts, content |-> metadata]>>

Md5sumsEntry(hashes, ts) ==
    [path |-> "md5sums", mtime |-> ts, content |-> hashes]

CB_generate_archive(b, metadata) ==
    IF b.state = "Created"
    THEN [error |-> "",
          cb |-> [b EXCEPT !.state = "Populated",
                           !.entries = StaticEntries(metadata, b.mtime)]]
    ELSE [error |-> "InvalidBuilderState", cb |-> b]

CB_generate_md5sums_unchecked(b, hashes) ==
    [error |-> "",
     cb |-> [b EXCEPT !.state = "Finalizable",
                      !.entries = Append(@, Md5sumsEntry(hashes, b.mtime))]]

CB_generate_md5sums(b, hashes) ==
    IF b.state = "Populated"
    THEN [error |-> "",
          cb |-> [b EXCEPT !.state = "Finalizable",
                           !.entries = Append(@, Md5sumsEntry(hashes, b.mtime))]]
    ELSE [error |-> "InvalidBuilderState", cb |-> b]

CB_finish(b) ==
    IF b.state = "Finalizable"
    THEN [error |-> "", cb |-> [b EXCEPT !.state = "Closed"],
          blob |-> Compress(b.ext, Len(b.entries), b.entries)]
    ELSE [error |-> "InvalidBuilderState", cb |-> b, blob |-> NoBlob]

-----------------------------------------------------------------------------
(* Outer container assembler: DebArchive *)

DebArchive_new == [open |-> TRUE, members |-> <<>>]

DebArchive_add_data(deb, name, ts, payload) ==
    [deb EXCEPT !.members = Append(@, [name |-> name, mtime |-> ts, payload |-> payload])]

\* finish(): the temporary file is promoted to the output path.
DebArchive_finish(deb) == deb.members

-----------------------------------------------------------------------------
(* fn process: the orchestrator *)

TypeOK ==
    /\ cli \in [quiet : BOOLEAN, fast : BOOLEAN, system_xz : BOOLEAN, install : BOOLEAN]
    /\ options \in [metadata : Metadatas, assets : AssetLists,
                    default_timestamp : Timestamps]
    /\ scratch \in BOOLEAN /\ scratch_reset \in BOOLEAN /\ installed \in BOOLEAN
    /\ runs \in 1..MaxRuns
    /\ result.status \in {"running", "Ok", "Err", "panic"}

Init ==
    /\ cli \in [quiet : BOOLEAN, fast : BOOLEAN, system_xz : BOOLEAN, install : BOOLEAN]
    /\ options \in [metadata : Metadatas, assets : AssetLists,
                    default_timestamp : Timestamps]
    /\ pc = "from_manifest"
    /\ ctl_pc = "idle"
    /\ data_pc = "idle"
    /\ ctl_result = NoTaskResult
    /\ data_result = NoTaskResult
    /\ control_builder = NoBuilder
    /\ control_compressed = NoBlob
    /\ deb_contents = NoArchive
    /\ added = <<>>
    /\ output_file = NoFile
    /\ scratch = FALSE
    /\ scratch_reset = FALSE
    /\ printed = <<>>
    /\ info = <<>>
    /\ installed = FALSE
    /\ result = Running
    /\ runs = 1
    /\ prev_output = NoFile
    /\ last_call = NoCall
    /\ cb_calls = <<>>
    /\ fuzz = NoFuzz

inputs == <<cli, options>>
tasks == <<ctl_pc, data_pc, ctl_result, data_result>>
builder == <<control_builder, control_compressed>>
outside == <<output_file, printed, info, installed>>
temp == <<scratch, scratch_reset>>
history == <<runs, prev_output, last_call, fuzz>>

\* The `?` operator: the error is returned from process; locals are dropped.
PropagateIgnored(e, stage, next) ==
    /\ pc' = next
    /\ result' = result
    /\ deb_contents' = deb_contents

Propagate_Retry(e, stage, next) ==
    /\ pc' = pc
    /\ result' = result
    /\ deb_contents' = deb_contents

Propagate(e, stage, next) ==
    /\ pc' = "returned"
    /\ result' = Err(e, stage)
    /\ deb_contents' = NoArchive

Continue(next) ==
    /\ pc' = next
    /\ result' = result
    /\ deb_contents' = deb_contents

\* A stage whose only modelled effect is that it can fail.
Stage(here, e, next) ==
    /\ pc = here
    /\ \E ok \in BOOLEAN :
        IF ok THEN Continue(next) ELSE Propagate(e, here, next)
    /\ UNCHANGED <<inputs, tasks, builder, cb_calls, added, outside, temp, history>>

FromManifest == Stage("from_manifest", "ConfigInvalid", "reset_deb_temp_directory")

ResetDebTempDirectory ==
    /\ pc = "reset_deb_temp_directory"
    /\ \E ok \in BOOLEAN :
        IF ok
        THEN /\ Continue("cargo_build")
             /\ scratch' = TRUE
             /\ scratch_reset' = TRUE
        ELSE /\ Propagate("Io", "reset_deb_temp_directory", "cargo_build")
             /\ UNCHANGED temp
    /\ UNCHANGED <<inputs, tasks, builder, cb_calls, added, outside, history>>

CargoBuild ==
    /\ pc = "cargo_build"
    /\ \E no_build \in BOOLEAN, ok \in BOOLEAN :
        IF no_build \/ ok
        THEN Continue("resolve_assets")
        ELSE Propagate("BuildFailed", "cargo_build", "resolve_assets")
    /\ UNCHANGED <<inputs, tasks, builder, cb_calls, added, outside, temp, history>>

ResolveAssets == Stage("resolve_assets", "AssetUnreadable", "compress_assets")

CompressAssets == Stage("compress_assets", "CompressionIo", "strip_binaries")

ShouldStrip(strip_override, separate_debug_symbols, debug_enabled) ==
    IF strip_override = "None"
    THEN separate_debug_symbols \/ ~debug_enabled
    ELSE strip_override = "Some(true)"

StripBinaries ==
    /\ pc = "strip_binaries"
    /\ \E strip_override \in {"Some(true)", "Some(false)", "None"},
          separate_debug_symbols \in BOOLEAN, debug_enabled \in BOOLEAN,
          ok \in BOOLEAN :
        IF ShouldStrip(strip_override, separate_debug_symbols, debug_enabled) /\ ~ok
        THEN Propagate("StripFailed", "strip_binaries", "fork")
        ELSE Continue("fork")
    /\ UNCHANGED <<inputs, tasks, builder, cb_calls, added, outside, temp, history>>

\* let default_timestamp = options.default_timestamp;
WallClock == options.default_timestamp + runs

\* A clock read after the configuration was made.
default_timestamp_Now == options.default_timestamp + 1

default_timestamp == options.default_timestamp

\* The (fast, system_xz) arguments each closure hands to compress::xz_or_gz.
ControlPolicy == [fast |-> cli.fast, system_xz |-> cli.system_xz]

DataPolicy_Fast == [fast |-> TRUE, system_xz |-> cli.system_xz]

DataPolicy == [fast |-> cli.fast, system_xz |-> cli.system_xz]

\* rayon::join starts both closures.
Fork ==
    /\ pc = "fork"
    /\ Continue("join")
    /\ ctl_pc' = "xz_or_gz"
    /\ data_pc' = "xz_or_gz"
    /\ UNCHANGED <<inputs, ctl_result, data_result, builder, cb_calls, added, outside,
                   temp, history>>

\* First closure: ControlArchiveBuilder::new(compress::xz_or_gz(fast, system_xz)?, ..)
CtlNew ==
    /\ ctl_pc = "xz_or_gz"
    /\ \E xz_found \in BOOLEAN :
        LET sink == xz_or_gz(ControlPolicy.fast, ControlPolicy.system_xz, xz_found)
        IN  IF sink.error # ""
            THEN /\ ctl_result' = [NoTaskResult EXCEPT !.status = "Err",
                                                       !.error = sink.error]
                 /\ ctl_pc' = "done"
                 /\ UNCHANGED control_builder
            ELSE /\ control_builder' = CB_new(sink.ext, default_timestamp)
                 /\ ctl_pc' = "generate_archive"
                 /\ UNCHANGED ctl_result
    /\ UNCHANGED <<inputs, pc, data_pc, data_result, control_compressed, cb_calls,
                   deb_contents, added, outside, temp, result, history>>

\* First closure: control_builder.generate_archive(options)?
CtlGenerateArchive ==
    /\ ctl_pc = "generate_archive"
    /\ \E io_ok \in BOOLEAN :
        LET r == CB_generate_archive(control_builder, options.metadata)
        IN  IF ~io_ok \/ r.error # ""
            THEN /\ ctl_result' = [NoTaskResult EXCEPT
                                     !.status = "Err",
                                     !.error = IF io_ok THEN r.error ELSE "CompressionIo"]
                 /\ control_builder' = NoBuilder
            ELSE /\ ctl_result' = [NoTaskResult EXCEPT !.status = "Ok",
                                                       !.ext = control_builder.ext]
                 /\ control_builder' = r.cb
    /\ ctl_pc' = "done"
    /\ cb_calls' = Append(cb_calls, "generate_archive")
    /\ UNCHANGED <<inputs, pc, data_pc, data_result, control_compressed,
                   deb_contents, added, outside, temp, result, history>>

\* Second closure: compress::xz_or_gz(fast, system_xz)?
DataSink ==
    /\ data_pc = "xz_or_gz"
    /\ \E xz_found \in BOOLEAN :
        LET sink == xz_or_gz(DataPolicy.fast, DataPolicy.system_xz, xz_found)
        IN  IF sink.error # ""
            THEN /\ data_result' = [NoTaskResult EXCEPT !.status = "Err",
                                                        !.error = sink.error]
                 /\ data_pc' = "done"
            ELSE /\ data_result' = [NoTaskResult EXCEPT !.ext = sink.ext]
                 /\ data_pc' = "generate_archive"
    /\ UNCHANGED <<inputs, pc, ctl_pc, ctl_result, builder, cb_calls, deb_contents, added,
                   outside, temp, result, history>>

\* Second closure: data::generate_archive(sink, &options, default_timestamp, listener)?
DataGenerateArchive ==
    /\ data_pc = "generate_archive"
    /\ \E readable \in BOOLEAN :
        LET r == data_generate_archive(data_result.ext, options.assets,
                                       default_timestamp, readable)
        IN  /\ data_result' = r
            /\ data_pc' = IF r.status = "Err" THEN "done" ELSE "finish"
    /\ UNCHANGED <<inputs, pc, ctl_pc, ctl_result, builder, cb_calls, deb_contents, added,
                   outside, temp, result, history>>

\* Second closure: Ok((compressed.finish()?, original_data_size, asset_hashes))
DataFinish ==
    /\ data_pc = "finish"
    /\ \E io_ok \in BOOLEAN :
        data_result' = IF io_ok
                       THEN [data_result EXCEPT !.status = "Ok"]
                       ELSE [NoTaskResult EXCEPT !.status = "Err",
                                                 !.error = "CompressionIo"]
    /\ data_pc' = "done"
    /\ UNCHANGED <<inputs, pc, ctl_pc, ctl_result, builder, cb_calls, deb_contents, added,
                   outside, temp, result, history>>

\* let mut control_builder = control_builder?; let (..) = data_result?;
JoinOutcome_NoControlCheck(c, d) ==
    IF d.status = "Err" THEN d.error ELSE ""

JoinOutcome_NoDataCheck(c, d) ==
    IF c.status = "Err" THEN c.error ELSE ""

JoinOutcome(c, d) ==
    IF c.status = "Err" THEN c.error
    ELSE IF d.status = "Err" THEN d.error
    ELSE ""

\* rayon::join returns once both closures have returned.
JoinReady_ControlOnly == ctl_pc = "done"

JoinReady_FailFast ==
    \/ ctl_pc = "done" /\ data_pc = "done"
    \/ ctl_pc = "done" /\ ctl_result.status = "Err"
    \/ data_pc = "done" /\ data_result.status = "Err"

JoinReady == ctl_pc = "done" /\ data_pc = "done"

\* The statement process runs next once both results are unwrapped.
AfterJoin_SkipMd5sums == "control_finish"

AfterJoin == "generate_md5sums"

Join ==
    /\ pc = "join"
    /\ JoinReady
    /\ LET e == JoinOutcome(ctl_result, data_result)
       IN  IF e # ""
           THEN Propagate(e, "join", AfterJoin)
           ELSE Continue(AfterJoin)
    /\ UNCHANGED <<inputs, tasks, builder, cb_calls, added, outside, temp, history>>

\* control_builder.generate_md5sums(options, asset_hashes)?
Md5sumsInput_Empty(d) == <<>>

Md5sumsInput(d) == d.asset_hashes

GenerateMd5sums ==
    /\ pc = "generate_md5sums"
    /\ \E io_ok \in BOOLEAN :
        LET r == CB_generate_md5sums(control_builder, Md5sumsInput(data_result))
        IN  IF ~io_ok
            THEN /\ Propagate("CompressionIo", "generate_md5sums", "control_finish")
                 /\ UNCHANGED control_builder
            ELSE IF r.error # ""
            THEN /\ Propagate(r.error, "generate_md5sums", "control_finish")
                 /\ control_builder' = r.cb
            ELSE /\ Continue("control_finish")
                 /\ control_builder' = r.cb
    /\ cb_calls' = Append(cb_calls, "generate_md5sums")
    /\ UNCHANGED <<inputs, tasks, control_compressed, added, outside, temp, history>>

\* let control_compressed = control_builder.finish()?.finish()?;
ControlFinish ==
    /\ pc = "control_finish"
    /\ \E io_ok \in BOOLEAN :
        LET r == CB_finish(control_builder)
        IN  IF ~io_ok
            THEN /\ Propagate("CompressionIo", "control_finish", "DebArchive::new")
                 /\ UNCHANGED builder
            ELSE IF r.error # ""
            THEN /\ Propagate(r.error, "control_finish", "DebArchive::new")
                 /\ UNCHANGED builder
            ELSE /\ Continue("DebArchive::new")
                 /\ control_builder' = r.cb
                 /\ control_compressed' = r.blob
    /\ cb_calls' = Append(cb_calls, "finish")
    /\ UNCHANGED <<inputs, tasks, added, outside, temp, history>>

\* let mut deb_contents = DebArchive::new(&options)?;
DebNew ==
    /\ pc = "DebArchive::new"
    /\ \E ok \in BOOLEAN :
        IF ok
        THEN /\ pc' = "add_marker"
             /\ result' = result
             /\ deb_contents' = DebArchive_new
        ELSE Propagate("OutputWriteFailed", "DebArchive::new", "add_marker")
    /\ UNCHANGED <<inputs, tasks, builder, cb_calls, added, outside, temp, history>>

MarkerPayload_Wrong == <<"2", ".", "1", "\n">>

MarkerPayload == <<"2", ".", "0", "\n">>

MarkerMember ==
    [name |-> "debian-binary", payload |-> MarkerPayload]

ControlMember ==
    [name |-> "control.tar." \o control_compressed.ext, payload |-> control_compressed]

DataMember ==
    [name |-> "data.tar." \o data_result.compressed.ext,
     payload |-> data_result.compressed]

\* The member each add_data call of process hands over, by call position.
AddDataArg_Swapped(stage) ==
    IF stage = "add_marker" THEN MarkerMember
    ELSE IF stage = "add_control" THEN DataMember
    ELSE ControlMember

AddDataArg(stage) ==
    IF stage = "add_marker" THEN MarkerMember
    ELSE IF stage = "add_control" THEN ControlMember
    ELSE DataMember

\* deb_contents.add_data(name, default_timestamp, payload)?
AddDataCall(stage, next) ==
    /\ pc = stage
    /\ LET m == AddDataArg(stage)
       IN  /\ added' = Append(added, m.name)
           /\ \E ok \in BOOLEAN :
                IF ok
                THEN /\ pc' = next
                     /\ result' = result
                     /\ deb_contents' = DebArchive_add_data(deb_contents, m.name,
                                                            default_timestamp, m.payload)
                ELSE Propagate("OutputWriteFailed", stage, next)
    /\ UNCHANGED <<inputs, tasks, builder, cb_calls, outside, temp, history>>

AddMarker == AddDataCall("add_marker", "add_control")

\* The statement after the control member is added: the ratio report.
AfterAddControl_NoReport == "add_data"

AfterAddControl == "report_ratio"

AddControl == AddDataCall("add_control", AfterAddControl)

\* listener.info(format!("compressed/original ratio ..", c * 100 / original_data_size))
ReportRatio ==
    /\ pc = "report_ratio"
    /\ LET compressed_data_size == data_result.compressed.len
           original_data_size == data_result.original_data_size
       IN  IF original_data_size = 0
           THEN /\ pc' = "returned"
                /\ result' = Panic("report_ratio")
                /\ deb_contents' = NoArchive
                /\ UNCHANGED info
           ELSE /\ Continue("add_data")
                /\ info' = Append(info,
                     [compressed |-> compressed_data_size,
                      original |-> original_data_size,
                      percent |-> (compressed_data_size * 100) \div original_data_size])
    /\ UNCHANGED <<inputs, tasks, builder, cb_calls, added, output_file, printed, installed,
                   temp, history>>

AddData == AddDataCall("add_data", "finish")

\* let generated = deb_contents.finish()?;
DebFinish ==
    /\ pc = "finish"
    /\ \E ok \in BOOLEAN :
        IF ok
        THEN /\ pc' = "print"
             /\ result' = result
             /\ output_file' = DebArchive_finish(deb_contents)
             /\ deb_contents' = NoArchive
        ELSE /\ Propagate("OutputWriteFailed", "finish", "print")
             /\ UNCHANGED output_file
    /\ UNCHANGED <<inputs, tasks, builder, cb_calls, added, printed, info, installed,
                   temp, history>>

\* if !quiet { println!("{}", generated.display()); }
ShouldPrint_Always(quiet) == TRUE

ShouldPrint(quiet) == ~quiet

PrintPath ==
    /\ pc = "print"
    /\ Continue("remove_deb_temp_directory")
    /\ printed' = IF ShouldPrint(cli.quiet) THEN Append(printed, "generated") ELSE printed
    /\ UNCHANGED <<inputs, tasks, builder, cb_calls, added, output_file, info, installed,
                   temp, history>>

\* remove_deb_temp_directory(options);
RemoveDebTempDirectory ==
    /\ pc = "remove_deb_temp_directory"
    /\ Continue("install")
    /\ scratch' = FALSE
    /\ UNCHANGED <<inputs, tasks, builder, cb_calls, added, outside, scratch_reset, history>>

\* if install { install_deb(&generated)?; } Ok(())
Install ==
    /\ pc = "install"
    /\ pc' = "returned"
    /\ deb_contents' = deb_contents
    /\ \E ok \in BOOLEAN :
        IF cli.install /\ ~ok
        THEN /\ result' = Err("InstallFailed", "install")
             /\ UNCHANGED installed
        ELSE /\ result' = Ok
             /\ installed' = cli.install
    /\ UNCHANGED <<inputs, tasks, builder, cb_calls, added, output_file, printed, info,
                   temp, history>>

Next ==
    \/ FromManifest
    \/ ResetDebTempDirectory
    \/ CargoBuild
    \/ ResolveAssets
    \/ CompressAssets
    \/ StripBinaries
    \/ Fork
    \/ CtlNew
    \/ CtlGenerateArchive
    \/ DataSink
    \/ DataGenerateArchive
    \/ DataFinish
    \/ Join
    \/ GenerateMd5sums
    \/ ControlFinish
    \/ DebNew
    \/ AddMarker
    \/ AddControl
    \/ ReportRatio
    \/ AddData
    \/ DebFinish
    \/ PrintPath
    \/ RemoveDebTempDirectory
    \/ Install

Spec == Init /\ [][Next]_vars
-----------------------------------------------------------------------------
(* Two builds of the same inputs, one after the other (the harness calls     *)
(* process repeatedly on one manifest).                                      *)

Rerun ==
    /\ pc = "returned"
    /\ runs < MaxRuns
    /\ runs' = runs + 1
    /\ prev_output' = output_file
    /\ output_file' = NoFile
    /\ pc' = "from_manifest"
    /\ ctl_pc' = "idle"
    /\ data_pc' = "idle"
    /\ ctl_result' = NoTaskResult
    /\ data_result' = NoTaskResult
    /\ control_builder' = NoBuilder
    /\ control_compressed' = NoBlob
    /\ deb_contents' = NoArchive
    /\ added' = <<>>
    /\ scratch_reset' = FALSE
    /\ printed' = <<>>
    /\ info' = <<>>
    /\ installed' = FALSE
    /\ result' = Running
    /\ cb_calls' = <<>>
    /\ UNCHANGED <<inputs, scratch, last_call, fuzz>>

NextRerun == Next \/ Rerun

SpecRerun == Init /\ [][NextRerun]_vars

-----------------------------------------------------------------------------
(* The ControlArchiveBuilder protocol driven in any order (Scenario D).      *)

InitDriver ==
    /\ cli = [quiet |-> TRUE, fast |-> FALSE, system_xz |-> FALSE, install |-> FALSE]
    /\ options \in [metadata : Metadatas, assets : AssetLists,
                    default_timestamp : Timestamps]
    /\ pc = "driver"
    /\ ctl_pc = "idle"
    /\ data_pc = "idle"
    /\ ctl_result = NoTaskResult
    /\ data_result = NoTaskResult
    /\ \E ext \in {"gz", "xz"} :
         control_builder = CB_new(ext, options.default_timestamp)
    /\ control_compressed = NoBlob
    /\ deb_contents = NoArchive
    /\ added = <<>>
    /\ output_file = NoFile
    /\ scratch = FALSE
    /\ scratch_reset = FALSE
    /\ printed = <<>>
    /\ info = <<>>
    /\ installed = FALSE
    /\ result = Running
    /\ runs = 1
    /\ prev_output = NoFile
    /\ last_call = NoCall
    /\ cb_calls = <<>>
    /\ fuzz = NoFuzz

DriverCall(op, r) ==
    /\ pc = "driver"
    /\ last_call.n < MaxCalls
    /\ last_call' = [op |-> op, error |-> r.error, n |-> last_call.n + 1]
    /\ control_builder' = r.cb
    /\ UNCHANGED <<inputs, pc, tasks, deb_contents, added, outside, temp, result,
                   runs, prev_output, cb_calls, fuzz>>

DriveGenerateArchive ==
    /\ DriverCall("generate_archive",
                  CB_generate_archive(control_builder, options.metadata))
    /\ UNCHANGED control_compressed

DriveGenerateMd5sums ==
    /\ DriverCall("generate_md5sums",
                  CB_generate_md5sums(control_builder, DataHashes(options.assets)))
    /\ UNCHANGED control_compressed

DriveFinish ==
    LET r == CB_finish(control_builder)
    IN  /\ DriverCall("finish", r)
        /\ control_compressed' = IF r.error = "" THEN r.blob ELSE control_compressed

NextDriver == DriveGenerateArchive \/ DriveGenerateMd5sums \/ DriveFinish

SpecDriver == InitDriver /\ [][NextDriver]_vars
-----------------------------------------------------------------------------
(* Properties *)

Names(members) == [i \in 1..Len(members) |-> members[i].name]

PathsOf(entries) == {entries[i].path : i \in 1..Len(entries)}

AfterFinish == pc \in {"print", "remove_deb_temp_directory", "install", "returned"}

\* C1: on every exit path of a build that has reset the scratch directory,
\* the scratch directory has been removed by the time process returns.
C1_ScratchRemovedOnEveryExit ==
    (pc = "returned" /\ scratch_reset) => ~scratch

\* C2: a build that reaches the Assembler's finish(), or that succeeds, has
\* called add_data exactly three times, in the order debian-binary,
\* control.tar.<ext>, data.tar.<ext>, and the container holds exactly those
\* three members in that order.
C2_ThreeMembersInOrder ==
    (pc = "finish" \/ output_file # NoFile \/ result = Ok) =>
        /\ Len(added) = 3
        /\ added[1] = "debian-binary"
        /\ added[2] \in {"control.tar.gz", "control.tar.xz"}
        /\ added[3] \in {"data.tar.gz", "data.tar.xz"}
        /\ pc = "finish" => Names(deb_contents.members) = added
        /\ output_file # NoFile => Names(output_file) = added

C2_Witness ==
    /\ result = Ok
    /\ Len(output_file) = 3
    /\ Names(output_file) = added

\* C3: if either closure of the join failed, the Assembler is never created,
\* add_data is never called, no output file is produced, and process returns
\* the error of a failed closure.
C3_TaskFailureAborts ==
    (ctl_result.status = "Err" \/ data_result.status = "Err") =>
        /\ pc \in {"join", "returned"}
        /\ deb_contents = NoArchive
        /\ added = <<>>
        /\ output_file = NoFile
        /\ pc = "returned" =>
             /\ result.status = "Err"
             /\ result.stage = "join"
             /\ \/ ctl_result.status = "Err" /\ result.error = ctl_result.error
                \/ data_result.status = "Err" /\ result.error = data_result.error

C3_Witness ==
    /\ pc = "returned"
    /\ ctl_result.status = "Ok"
    /\ data_result.status = "Err"
    /\ result.error = data_result.error

\* C4: a file exists at the final output path only if all three add_data
\* calls and the Assembler's finish() succeeded; a failure in add_data or in
\* finish leaves no file at the output path.
C4_NoPartialOutput ==
    /\ output_file # NoFile =>
         /\ AfterFinish
         /\ Len(output_file) = 3
         /\ Len(added) = 3
         /\ Names(output_file) = added
         /\ result.stage \notin {"DebArchive::new", "add_marker", "add_control",
                                 "report_ratio", "add_data", "finish"}
    /\ result.stage \in {"DebArchive::new", "add_marker", "add_control",
                         "report_ratio", "add_data", "finish"}
         => output_file = NoFile

C4_Witness ==
    /\ pc = "returned"
    /\ result.status = "Err"
    /\ result.stage = "add_data"
    /\ Len(added) = 3
    /\ output_file = NoFile

\* C5: in a successful build the target paths of the checksum listing in
\* the control sub-archive are exactly the paths written into the data
\* sub-archive, which are the normalized targets of the input assets; the
\* listing has one entry per written asset and no duplicate.
C5_ListingMatchesData ==
    output_file # NoFile =>
        LET ctl == output_file[2].payload.entries
            listings == {i \in 1..Len(ctl) : ctl[i].path = "md5sums"}
            data == output_file[3].payload.entries
        IN  /\ Cardinality(listings) = 1
            /\ \A i \in listings :
                 /\ PathsOf(ctl[i].content) = PathsOf(data)
                 /\ Len(ctl[i].content) = Len(data)
                 /\ Cardinality(PathsOf(ctl[i].content)) = Len(ctl[i].content)
            /\ Cardinality(PathsOf(data)) = Len(data)
            /\ Len(data) = Len(options.assets)
            /\ PathsOf(data) = {Normalize(options.assets[i].target) :
                                  i \in 1..Len(options.assets)}

C5_Witness ==
    /\ output_file # NoFile
    /\ Len(output_file[3].payload.entries) = 2
    /\ Len(output_file[2].payload.entries[2].content) = 2

\* C6: the Control Builder moves only Created -> Populated -> Finalizable ->
\* Closed; generate_md5sums in any state but Populated (before
\* generate_archive, or a second time) and every call after finish() fail
\* with InvalidBuilderState, and a failed call leaves the builder unchanged.
C6_BuilderProtocol ==
    [][pc = "driver" /\ last_call'.n # last_call.n =>
        /\ (last_call'.op = "generate_md5sums" /\ control_builder.state # "Populated")
             => last_call'.error = "InvalidBuilderState"
        /\ control_builder.state = "Closed"
             => last_call'.error = "InvalidBuilderState"
        /\ last_call'.error # "" => control_builder' = control_builder
        /\ last_call'.error = "" =>
             <<control_builder.state, control_builder'.state>> \in
                {<<"Created", "Populated">>, <<"Populated", "Finalizable">>,
                 <<"Finalizable", "Closed">>}]_vars

C6_Witness ==
    /\ pc = "driver"
    /\ last_call.op = "generate_md5sums"
    /\ last_call.error = "InvalidBuilderState"
    /\ control_builder.state = "Created"
    /\ control_builder.entries = <<>>

\* C7 as stated: whenever the data task has found two assets with the same
\* normalized target path, process returns DuplicateTargetPath and there is
\* no file at the output path.
C7_AlwaysDuplicateTargetPath ==
    (pc = "returned" /\ data_result.error = "DuplicateTargetPath") =>
        /\ result.error = "DuplicateTargetPath"
        /\ output_file = NoFile

\* C7 amended: when two assets share a normalized target path the build
\* never succeeds and never leaves a file at the output path; the data task
\* fails with DuplicateTargetPath once it reaches generate_archive, and
\* process returns that error unless the control task failed too, whose
\* error is returned first.
C7_DuplicateNeverBuilds ==
    HasDuplicateTarget(options.assets) =>
        /\ output_file = NoFile
        /\ deb_contents = NoArchive
        /\ pc = "returned" => result.status = "Err"
        /\ data_pc # "finish"
        /\ (data_pc = "done" /\ data_result.error # "CompressionUnavailable")
             => data_result.error = "DuplicateTargetPath"
        /\ (pc = "returned" /\ result.stage = "join" /\ ctl_result.status = "Ok")
             => result.error = data_result.error
        /\ (pc = "returned" /\ result.stage = "join" /\ ctl_result.status = "Err")
             => result.error = ctl_result.error

C7_Witness ==
    /\ HasDuplicateTarget(options.assets)
    /\ options.assets[1].target # options.assets[2].target
    /\ pc = "returned"
    /\ result = Err("DuplicateTargetPath", "join")

\* C8: the first member added to the outer container is named
\* "debian-binary" and its payload is the 4 bytes "2.0\n", whatever the
\* metadata, the assets and the options.
C8_MarkerFirst ==
    /\ added # <<>> => added[1] = "debian-binary"
    /\ \A f \in {deb_contents.members, output_file} :
         f # <<>> =>
            /\ f[1].name = "debian-binary"
            /\ f[1].payload = <<"2", ".", "0", "\n">>
            /\ Len(f[1].payload) = 4

C8_Witness ==
    /\ Len(deb_contents.members) = 1
    /\ deb_contents.members[1].name = "debian-binary"
    /\ pc = "add_control"

\* C9: two builds of identical inputs that both produce a file produce the
\* same file (member sequence, names, timestamps, payloads), whatever the
\* interleaving of the two closures in each build.
C9_Deterministic ==
    (prev_output # NoFile /\ output_file # NoFile) => output_file = prev_output

C9_Witness ==
    /\ runs = 2
    /\ prev_output # NoFile
    /\ output_file # NoFile
    /\ result = Ok

\* C10 as stated: every successful build emits the artifact path, for every
\* combination of options.
C10_PathAlwaysEmitted ==
    (output_file # NoFile /\ pc \in {"remove_deb_temp_directory", "install", "returned"})
        => printed # <<>>

\* C10 amended: a successful build emits the artifact path exactly when
\* quiet is not set, and a path is emitted only after finish() returned the
\* generated file.
C10_PathEmittedUnlessQuiet ==
    /\ (output_file # NoFile /\ pc \in {"remove_deb_temp_directory", "install", "returned"})
         => (printed = <<"generated">> <=> ~cli.quiet)
    /\ printed # <<>> => (output_file # NoFile /\ ~cli.quiet)

C10_Witness ==
    /\ result = Ok
    /\ cli.quiet
    /\ output_file # NoFile
    /\ printed = <<>>
Md5sumsOnlyAfterBoth ==
    /\ ("generate_md5sums" \in {cb_calls[i] : i \in 1..Len(cb_calls)}
         \/ pc = "generate_md5sums")
          => (ctl_pc = "done" /\ data_pc = "done" /\ data_result.status = "Ok")
    /\ control_builder.state \in {"Finalizable", "Closed"}
          => control_builder.entries[2].content = data_result.asset_hashes

C12_HandOffAfterJoin ==
    [][/\ Md5sumsOnlyAfterBoth'
       /\ (pc = "join" /\ ctl_pc' # ctl_pc)
            => /\ data_pc' = data_pc
               /\ data_result' = data_result
               /\ inputs' = inputs
       /\ (pc = "join" /\ data_pc' # data_pc)
            => /\ ctl_pc' = ctl_pc
               /\ ctl_result' = ctl_result
               /\ control_builder' = control_builder
               /\ cb_calls' = cb_calls
               /\ inputs' = inputs]_vars

C12_Witness ==
    /\ pc = "generate_md5sums"
    /\ ctl_pc = "done"
    /\ data_pc = "done"
    /\ Len(data_result.asset_hashes) = 2
    /\ control_builder.state = "Populated"

BeforeJoin ==
    {"from_manifest", "reset_deb_temp_directory", "cargo_build", "resolve_assets",
     "compress_assets", "strip_binaries", "fork"}

PastJoin ==
    \/ pc \notin BeforeJoin \cup {"join", "returned", "driver"}
    \/ pc = "returned" /\ result.stage \notin BeforeJoin

\* C13: a closure that has not finished can always take its next step,
\* whatever the other's result; process goes past the join only when both
\* are done; and when one failed the other's result reaches no builder call
\* and no output.
C13_NoCancellation ==
    /\ (pc = "join" /\ data_pc \in {"xz_or_gz", "generate_archive", "finish"})
         => ENABLED (DataSink \/ DataGenerateArchive \/ DataFinish)
    /\ (pc = "join" /\ ctl_pc \in {"xz_or_gz", "generate_archive"})
         => ENABLED (CtlNew \/ CtlGenerateArchive)
    /\ PastJoin => (ctl_pc = "done" /\ data_pc = "done")
    /\ (PastJoin /\ (ctl_result.status = "Err" \/ data_result.status = "Err"))
         => /\ pc = "returned"
            /\ result.stage = "join"
            /\ cb_calls \in {<<>>, <<"generate_archive">>}
            /\ control_compressed = NoBlob
            /\ added = <<>>
            /\ deb_contents = NoArchive
            /\ output_file = NoFile

C13_Witness ==
    /\ pc = "returned"
    /\ ctl_result.status = "Err"
    /\ data_pc = "done"
    /\ data_result.status = "Ok"
    /\ Len(data_result.asset_hashes) = 2
    /\ output_file = NoFile

\* C14: when a build reaches container assembly, process has called
\* generate_archive, generate_md5sums (with the data closure's digest
\* mapping) and finish on the Control Builder, each once and in that order;
\* process never returns InvalidBuilderState.
C14_BuilderDrivenInOrder ==
    /\ result.error # "InvalidBuilderState"
    /\ \E k \in 0..3 :
         cb_calls = SubSeq(<<"generate_archive", "generate_md5sums", "finish">>, 1, k)
    /\ (pc \in {"DebArchive::new", "add_marker", "add_control", "report_ratio",
                "add_data", "finish", "print", "remove_deb_temp_directory", "install"}
        \/ deb_contents.open \/ added # <<>> \/ output_file # NoFile)
         => /\ cb_calls = <<"generate_archive", "generate_md5sums", "finish">>
            /\ control_builder.state = "Closed"
            /\ Len(control_compressed.entries) = 2
            /\ control_compressed.entries[2].path = "md5sums"
            /\ control_compressed.entries[2].content = data_result.asset_hashes

C14_Witness ==
    /\ pc = "DebArchive::new"
    /\ cb_calls = <<"generate_archive", "generate_md5sums", "finish">>
    /\ control_builder.state = "Closed"

PcRank(p) ==
    CASE p = "from_manifest" -> 0
      [] p = "reset_deb_temp_directory" -> 1
      [] p = "cargo_build" -> 2
      [] p = "resolve_assets" -> 3
      [] p = "compress_assets" -> 4
      [] p = "strip_binaries" -> 5
      [] p = "fork" -> 6
      [] p = "join" -> 7
      [] p = "generate_md5sums" -> 8
      [] p = "control_finish" -> 9
      [] p = "DebArchive::new" -> 10
      [] p = "add_marker" -> 11
      [] p = "add_control" -> 12
      [] p = "report_ratio" -> 13
      [] p = "add_data" -> 14
      [] p = "finish" -> 15
      [] p = "print" -> 16
      [] p = "remove_deb_temp_directory" -> 17
      [] p = "install" -> 18
      [] OTHER -> 19

TaskRank(p) ==
    CASE p = "idle" -> 0
      [] p = "xz_or_gz" -> 1
      [] p = "generate_archive" -> 2
      [] p = "finish" -> 3
      [] OTHER -> 4

NothingAfterFailure ==
    /\ (result.status = "Err" /\ result.stage # "install") =>
          /\ output_file = NoFile
          /\ printed = <<>>
          /\ ~installed
    /\ (result.status = "Err" /\ PcRank(result.stage) < PcRank("add_marker"))
          => added = <<>>

\* C15: every step moves process or one closure strictly forward, so no
\* stage runs twice; a stage's error ends process at once with that error,
\* with nothing emitted, installed or written to the output path by the
\* failing step, and nothing runs after process has returned.
C15_NoRetryFailFast ==
    [][/\ PcRank(pc') >= PcRank(pc)
       /\ TaskRank(ctl_pc') >= TaskRank(ctl_pc)
       /\ TaskRank(data_pc') >= TaskRank(data_pc)
       /\ PcRank(pc') + TaskRank(ctl_pc') + TaskRank(data_pc')
            > PcRank(pc) + TaskRank(ctl_pc) + TaskRank(data_pc)
       /\ result.status = "running"
       /\ result'.status = "Err" =>
            /\ pc' = "returned"
            /\ result'.stage = pc
            /\ output_file' = output_file
            /\ printed' = printed
            /\ installed' = installed
            /\ info' = info
       /\ NothingAfterFailure']_vars

C15_Witness ==
    /\ pc = "returned"
    /\ result = Err("OutputWriteFailed", "add_control")
    /\ added = <<"debian-binary", "control.tar.xz">>
    /\ output_file = NoFile
    /\ printed = <<>>

\* C16 as stated: a ratio line is reported only after all three add_data
\* calls and after the Assembler's finish().
C16_RatioAfterFinish ==
    info # <<>> => (Len(added) = 3 /\ output_file # NoFile)

\* C16 amended: the ratio line is reported once, after the marker and the
\* control member were added and before the data member is added and before
\* finish(); the third add_data is called only after the report.
C16_RatioBeforeDataMember ==
    /\ Len(info) <= 1
    /\ info # <<>> =>
         /\ Len(added) >= 2
         /\ added[1] = "debian-binary"
         /\ added[2] \in {"control.tar.gz", "control.tar.xz"}
    /\ (pc = "add_data" \/ Len(added) = 3) => Len(info) = 1
    /\ pc = "add_data" =>
         /\ Len(added) = 2
         /\ Len(deb_contents.members) = 2
         /\ output_file = NoFile

C16_Witness ==
    /\ pc = "returned"
    /\ result = Err("OutputWriteFailed", "add_data")
    /\ Len(info) = 1
    /\ output_file = NoFile

\* C17: whenever the ratio line is reached the uncompressed data size is
\* greater than zero, so the division never panics.
C17_RatioNeverDividesByZero ==
    /\ pc = "report_ratio" => data_result.original_data_size > 0
    /\ result.status # "panic"

\* C18: the control member and the data member of a build carry the same
\* compression extension, gz or xz.
C18_SameExtension ==
    /\ (ctl_result.status = "Ok" /\ data_result.status = "Ok") =>
         /\ control_builder.ext = data_result.compressed.ext
         /\ control_builder.ext \in {"gz", "xz"}
    /\ output_file # NoFile =>
         /\ output_file[2].payload.ext = output_file[3].payload.ext
         /\ output_file[2].name = "control.tar." \o output_file[2].payload.ext
         /\ output_file[3].name = "data.tar." \o output_file[2].payload.ext

C18_Witness ==
    /\ Len(output_file) = 3
    /\ output_file[2].payload.ext = "xz"
    /\ output_file[3].payload.ext = "xz"
    /\ cli.system_xz
-----------------------------------------------------------------------------
(* The fuzz harness: main and fuzz_input *)

MinInputLen == 32

OuterRuns == 32

StripOverrideCases == 3

\* n bytes of ASCII with one character of w bytes starting at offset a.
Utf8(n, a, w) ==
    [k \in 1..n |->
        IF w > 1 /\ k = a + 1 THEN "lead"
        ELSE IF w > 1 /\ k > a + 1 /\ k <= a + w THEN "cont"
        ELSE "ascii"]

\* n bytes that are not UTF-8: a continuation byte with no lead byte.
NotUtf8(n) == [k \in 1..n |-> IF k = 1 THEN "cont" ELSE "ascii"]

FuzzData ==
    {Utf8(n, a, w) : n \in (MinInputLen - 1)..(MinInputLen + MaxExtraLen),
                     a \in 0..(MinInputLen - 1 - MaxCharWidth),
                     w \in 1..MaxCharWidth}
    \cup {NotUtf8(MinInputLen)}

\* std::str::from_utf8(data).is_ok()
IsUtf8(d) ==
    \A k \in 1..Len(d) :
        /\ d[k] = "cont" => (k > 1 /\ d[k - 1] \in {"lead", "cont"})
        /\ d[k] = "lead" => (k < Len(d) /\ d[k + 1] = "cont")

\* str::is_char_boundary
IsCharBoundary(d, idx) ==
    \/ idx = 0
    \/ idx = Len(d)
    \/ idx < Len(d) /\ d[idx + 1] # "cont"

InitFuzz ==
    /\ cli = [quiet |-> TRUE, fast |-> FALSE, system_xz |-> FALSE, install |-> FALSE]
    /\ options = [metadata |-> "demo", assets |-> <<>>, default_timestamp |-> 0]
    /\ pc = "off"
    /\ ctl_pc = "idle"
    /\ data_pc = "idle"
    /\ ctl_result = NoTaskResult
    /\ data_result = NoTaskResult
    /\ control_builder = NoBuilder
    /\ control_compressed = NoBlob
    /\ deb_contents = NoArchive
    /\ added = <<>>
    /\ output_file = NoFile
    /\ scratch = FALSE
    /\ scratch_reset = FALSE
    /\ printed = <<>>
    /\ info = <<>>
    /\ installed = FALSE
    /\ result = Running
    /\ runs = 1
    /\ prev_output = NoFile
    /\ last_call = NoCall
    /\ cb_calls = <<>>
    /\ \E d \in FuzzData : fuzz = [NoFuzz EXCEPT !.pc = "main", !.input = d]

notFuzz == <<cli, options, pc, ctl_pc, data_pc, ctl_result, data_result,
             control_builder, control_compressed, deb_contents, added,
             output_file, scratch, scratch_reset, printed, info, installed,
             result, runs, prev_output, last_call, cb_calls>>

\* main: from_utf8, the length test, and the split index drawn from the
\* seeded generator in 0..=input.len().
FuzzMain ==
    /\ fuzz.pc = "main"
    /\ IF IsUtf8(fuzz.input) /\ Len(fuzz.input) >= MinInputLen
       THEN \E split_index \in 0..Len(fuzz.input) :
                fuzz' = [fuzz EXCEPT !.pc = "split_at", !.split_index = split_index]
       ELSE fuzz' = [fuzz EXCEPT !.pc = "skipped"]
    /\ UNCHANGED notFuzz

\* let (input_manifest, input_main_rs) = input.split_at(split_index);
SplitAt(d, idx) ==
    IF IsCharBoundary(d, idx)
    THEN [panic |-> FALSE, left |-> SubSeq(d, 1, idx),
          right |-> SubSeq(d, idx + 1, Len(d))]
    ELSE [panic |-> TRUE, left |-> <<>>, right |-> <<>>]

FuzzSplit ==
    /\ fuzz.pc = "split_at"
    /\ LET r == SplitAt(fuzz.input, fuzz.split_index)
       IN  fuzz' = IF r.panic
                   THEN [fuzz EXCEPT !.pc = "panicked_split_at"]
                   ELSE [fuzz EXCEPT !.pc = "write", !.input_manifest = r.left,
                                     !.input_main_rs = r.right]
    /\ UNCHANGED notFuzz

\* tempdir().unwrap(), fs::write of Cargo.toml, create_dir_all(..).unwrap(),
\* fs::write of main.rs .unwrap(), manifest_path.exists()
FuzzWrite ==
    /\ fuzz.pc = "write"
    /\ \E outcome \in {"loop", "returned", "panicked_unwrap"} :
         fuzz' = [fuzz EXCEPT !.pc = outcome]
    /\ UNCHANGED notFuzz

\* One iteration of the two loops: catch_unwind(|| process(cli_options)).
FuzzCall ==
    /\ fuzz.pc = "loop"
    /\ \E outcome \in {"Ok", "Err", "panic"} :
         LET last_inner == fuzz.strip_override_index = StripOverrideCases - 1
             last_outer == fuzz.i = OuterRuns - 1
         IN  fuzz' = [fuzz EXCEPT
                        !.caught = (outcome = "panic"),
                        !.strip_override_index = IF last_inner THEN 0 ELSE @ + 1,
                        !.i = IF last_inner /\ ~last_outer THEN @ + 1 ELSE @,
                        !.pc = IF last_inner /\ last_outer THEN "returned" ELSE "loop"]
    /\ UNCHANGED notFuzz

NextFuzz == FuzzMain \/ FuzzSplit \/ FuzzWrite \/ FuzzCall

SpecFuzz == InitFuzz /\ [][NextFuzz]_vars

\* C19: for every UTF-8 input of at least 32 bytes and every split index in
\* 0..=len, fuzz_input does not panic in the split, the two parts
\* concatenated are the input, and no panic of process escapes fuzz_input.
C19_SplitNeverPanics ==
    /\ fuzz.pc # "panicked_split_at"
    /\ fuzz.pc \in {"write", "loop", "returned"} =>
         fuzz.input_manifest \o fuzz.input_main_rs = fuzz.input
    /\ fuzz.pc # "panicked_process"

====
